---- MODULE Spec2Model ----
(***************************************************************************)
(* Tile Brush Tool: the modal operator VIEW3D_OT_tile_brush of             *)
(* src/tile_brush_tool.py (preview pose, placement ledger, undo log and    *)
(* the persistent structure).                                              *)
(*                                                                         *)
(* Representation.                                                         *)
(*  - Lengths are integers counting fortieths of a world unit (0.025), so  *)
(*    0.1 = 4, 0.125 = 5, 0.25 = 10, 0.5 = 20, 1.0 = 40, 2.0 = 80,         *)
(*    4.0 = 160.  Every tie of every round() call of the source falls on   *)
(*    such a number, so Python's round-half-to-even is modelled exactly.   *)
(*  - Angles are integers in degrees (the presets are multiples of 90, the *)
(*    R key adds 45).                                                      *)
(*  - A horizontal coordinate of the placement face is a pair <<i, s>>     *)
(*    standing for i + s * sqrt(2)/2 fortieths (s # 0 only under an odd    *)
(*    number of 45 degree Z steps).                                        *)
(*  - A Blender object reference that may be None is a sequence of length  *)
(*    at most one: None is <<>>, an object with mesh m is <<m>>.           *)
(*  - A mesh is the bag of the tile instances joined into it.              *)
(*  - The scene operators (copy, link, join, remove_doubles) are taken to  *)
(*    succeed, as section 9 of the specification treats them.              *)
(***************************************************************************)
EXTENDS Integers, Sequences, FiniteSets, Bags, TLC

(***************************************************************************)
(* Bounds of the model (not program constants).                            *)
(***************************************************************************)
\* The input layer offers a move only while the preview stays within MaxCoord
\* fortieths of the origin.
MaxCoord == 80
\* A commit is offered only while the ledger holds fewer than MaxTiles keys.
MaxTiles == 2
\* A commit or delete is offered only while the undo log is shorter than this.
MaxLog == 3

(***************************************************************************)
(* Program constants.                                                      *)
(***************************************************************************)
TILE_SIZES == <<20, 40, 80, 160>>

CUBE_FACES == << <<0, 0, 0>>, <<180, 0, 0>>, <<90, 0, 0>>,
                 <<-90, 0, 0>>, <<0, -90, 0>>, <<0, 90, 0>> >>

\* "Limit history to 20 entries"
UndoLimit == 20
\* Normal speed step, 0.5 units
NormalStep == 20
\* Precision step, 0.1 units
PrecisionStep == 4
\* tile_size_index set by invoke
StartSizeIndex == 2

\* update_preview_from_mouse: a mouse move auto-places only when it is longer
\* than 0.1.
MinAutoMove == 4
\* update_preview_from_mouse: a precision mouse move needs 10 pixels.
MovementThreshold == 10
None == <<>>
Some(x) == <<x>>

(***************************************************************************)
(* Arithmetic helpers.                                                     *)
(***************************************************************************)
Abs(n) == IF n < 0 THEN -n ELSE n

\* Python 3 round(n / d) for d > 0: nearest integer, ties to the even one.
Round(n, d) ==
    LET q == n \div d
        r == n % d
    IN  IF 2 * r < d THEN q
        ELSE IF 2 * r > d THEN q + 1
        ELSE IF q % 2 = 0 THEN q ELSE q + 1

\* cos and sin of a multiple of 90 degrees
Cos90(deg) ==
    LET d == deg % 360
    IN  IF d = 0 THEN 1 ELSE IF d = 180 THEN -1 ELSE 0
Sin90(deg) == Cos90(deg - 90)

\* cos and sin of a multiple of 45 degrees as <<i, s>> = i + s * sqrt(2)/2
Cos45(deg) ==
    LET d == deg % 360
    IN  IF d = 0 THEN <<1, 0>>
        ELSE IF d = 180 THEN <<-1, 0>>
        ELSE IF d \in {45, 315} THEN <<0, 1>>
        ELSE IF d \in {135, 225} THEN <<0, -1>>
        ELSE <<0, 0>>
Sin45(deg) == Cos45(deg - 90)

(***************************************************************************)
(* Pure functions of the operator.                                         *)
(***************************************************************************)
\* Mutant: the centre of the preview is taken for the placement face.
face_IsCentre(location, rotation_euler, tile_size) ==
    << <<location[1], 0>>, <<location[2], 0>>, location[3] >>

\* get_green_face_world_position: location + R(rotation_euler) * (0,0,-half)
\* with R = Rz * Ry * Rx (Euler XYZ).
get_green_face_world_position(location, rotation_euler, tile_size) ==
    LET half_size == tile_size \div 2
        a == rotation_euler[1]
        b == rotation_euler[2]
        c == rotation_euler[3]
        \* Rx(a) (0,0,-h) = (0, h sin a, -h cos a)
        y1 == half_size * Sin90(a)
        z1 == -half_size * Cos90(a)
        \* Ry(b) (0,y1,z1) = (z1 sin b, y1, z1 cos b)
        x2 == z1 * Sin90(b)
        z2 == z1 * Cos90(b)
        \* Rz(c) (x2,y1,z2) = (x2 cos c - y1 sin c, x2 sin c + y1 cos c, z2)
        cc == Cos45(c)
        sc == Sin45(c)
    IN  << <<location[1] + x2 * cc[1] - y1 * sc[1], x2 * cc[2] - y1 * sc[2]>>,
           <<location[2] + x2 * sc[1] + y1 * cc[1], x2 * sc[2] + y1 * cc[2]>>,
           location[3] + z2 >>

\* Mutant: in Fast mode at size 1.0 the half unit is added to the rounded
\* coordinate without being taken off before the rounding.
snap_OffsetOutside(location, speed, tile_size) ==
    IF speed = 1
    THEN IF tile_size = 20 \/ tile_size = 40
         THEN [i \in 1..3 |-> Round(location[i], 10) * 10]
         ELSE IF tile_size = 80
         THEN [i \in 1..3 |-> Round(location[i], 20) * 20]
         ELSE [i \in 1..3 |-> Round(location[i], 40) * 40]
    ELSE IF tile_size = 20
         THEN [i \in 1..3 |-> Round(location[i], 10) * 10]
         ELSE IF tile_size = 40
         THEN [i \in 1..3 |-> Round(location[i], 40) * 40 + 20]
         ELSE IF tile_size = 80
         THEN [i \in 1..3 |-> Round(location[i], 40) * 40]
         ELSE [i \in 1..3 |-> Round(location[i], 80) * 80]

\* snap_to_grid
snap_to_grid(location, speed, tile_size) ==
    IF speed = 1
    THEN IF tile_size = 20 \/ tile_size = 40
         THEN [i \in 1..3 |-> Round(location[i], 10) * 10]
         ELSE IF tile_size = 80
         THEN [i \in 1..3 |-> Round(location[i], 20) * 20]
         ELSE [i \in 1..3 |-> Round(location[i], 40) * 40]
    ELSE IF tile_size = 20
         THEN [i \in 1..3 |-> Round(location[i], 10) * 10]
         ELSE IF tile_size = 40
         THEN [i \in 1..3 |-> Round(location[i] - 20, 40) * 40 + 20]
         ELSE IF tile_size = 80
         THEN [i \in 1..3 |-> Round(location[i], 40) * 40]
         ELSE [i \in 1..3 |-> Round(location[i], 80) * 80]

\* snap_to_grid_horizontal_only: the same grids on X and Y, Z kept.
snap_to_grid_horizontal_only(location, speed, tile_size) ==
    LET xy(i) ==
            IF speed = 1
            THEN IF tile_size = 20 \/ tile_size = 40
                 THEN Round(location[i], 10) * 10
                 ELSE IF tile_size = 80
                 THEN Round(location[i], 20) * 20
                 ELSE Round(location[i], 40) * 40
            ELSE IF tile_size = 20
                 THEN Round(location[i], 10) * 10
                 ELSE IF tile_size = 40
                 THEN Round(location[i] - 20, 40) * 40 + 20
                 ELSE IF tile_size = 80
                 THEN Round(location[i], 40) * 40
                 ELSE Round(location[i], 80) * 80
    IN  <<xy(1), xy(2), location[3]>>

\* Mutant: the Normal mode snapping of a move is missing.
SnapHalfXY_Missing(loc) == loc

\* The inline snapping of modal and change_tile_size in Normal mode:
\* (round(x * 2) / 2, round(y * 2) / 2, z)
SnapHalfXY(loc) == <<Round(loc[1], 20) * 20, Round(loc[2], 20) * 20, loc[3]>>

\* Mutant: the horizontal directions are normalised per component instead
\* of being reduced to their dominant axis.
view_PerComponent(view) ==
    IF view = None
    THEN << <<0, 1, 0>>, <<1, 0, 0>> >>
    ELSE LET sign(c) == IF c > 0 THEN 1 ELSE IF c < 0 THEN -1 ELSE 0
             f == view[1].f
             r == view[1].r
         IN  << <<sign(f[1]), sign(f[2]), 0>>, <<sign(r[1]), sign(r[2]), 0>> >>

\* get_view_relative_vectors.  view is None (no region data) or
\* [f |-> <<x, y>>, r |-> <<x, y>>]: the horizontal components of the
\* camera's forward and right directions.
get_view_relative_vectors(view) ==
    IF view = None
    THEN << <<0, 1, 0>>, <<1, 0, 0>> >>
    ELSE LET f == view[1].f
             r == view[1].r
             forward_single_axis ==
                 IF Abs(f[1]) > Abs(f[2])
                 THEN <<IF f[1] > 0 THEN 1 ELSE -1, 0, 0>>
                 ELSE <<0, IF f[2] > 0 THEN 1 ELSE -1, 0>>
             right_single_axis ==
                 IF Abs(r[1]) > Abs(r[2])
                 THEN <<IF r[1] > 0 THEN 1 ELSE -1, 0, 0>>
                 ELSE <<0, IF r[2] > 0 THEN 1 ELSE -1, 0>>
         IN  <<forward_single_axis, right_single_axis>>

\* pos_key of place_tile_at_current_position / delete_tile_at_current_position.
\* round(., 6) keeps every coordinate of the model (a multiple of 0.025, or
\* one of these plus a multiple of 0.025 * sqrt(2)/2) and every angle (a
\* multiple of 45 degrees in radians) distinct, so the key holds them as they
\* are.
PosKey(face, rotation_euler, size_index, inverted) ==
    [x |-> face[1], y |-> face[2], z |-> face[3],
     rx |-> rotation_euler[1], ry |-> rotation_euler[2], rz |-> rotation_euler[3],
     size_index |-> size_index, inverted |-> inverted]

\* The plane instantiated for a key: plane_templates[size_index] at the key's
\* location and rotation (the inverted flag selects no geometry).
TileOf(key) ==
    [location |-> <<key.x, key.y, key.z>>,
     rotation_euler |-> <<key.rx, key.ry, key.rz>>,
     size_index |-> key.size_index]

\* The mesh holding one plane per key of tiles.
MeshOf(tiles) ==
    [g \in {TileOf(k) : k \in tiles} |-> Cardinality({k \in tiles : TileOf(k) = g})]

(***************************************************************************)
(* State of one session (the attributes invoke sets on the operator).      *)
(***************************************************************************)
VARIABLES
    session,                \* "RUNNING" | "CANCELLED": what modal last returned
    location,               \* preview.location
    base_location,          \* base_location
    rotation_euler,         \* preview.rotation_euler
    rotation_state,         \* index into CUBE_FACES, 0..5
    tile_size_index,        \* index into TILE_SIZES, 0..3
    current_tile_size,      \* TILE_SIZES[tile_size_index]
    inverted_mode,
    cube_templates_inverted,\* number of inverted cube templates loaded (0 or 4)
    movement_speed,         \* 1 = normal (1.0), 2 = fast (2.0)
    auto_mode,
    previous_speed,
    last_placed_position,   \* None or Some(<<face, rotation, size index>>)
    placed_tiles,           \* the ledger: a set of pos_keys
    master_object,          \* None or Some(mesh)
    undo_history,           \* sequence of None / Some(mesh copy)
    undo_positions,         \* sequence of ledger copies
    scene,                  \* what the session holds in the Blender scene:
                            \* preview (the preview object exists), templates
                            \* (number of template objects), modal_handler
                            \* (the modal handler is installed)
    last_mouse,             \* None until a precision mouse move has stored
                            \* last_mouse_x / last_mouse_y, then Some(<<x, y>>)
    ret,                    \* the last handler run and what its core call returned
    commit_trail            \* history variable: the ledger as it was before each
                            \* successful commit that no undo has answered yet,
                            \* oldest first, since the last delete (at most
                            \* UndoLimit of them)

poseVars == <<location, base_location, rotation_euler, rotation_state,
              tile_size_index, current_tile_size, inverted_mode>>
modeVars == <<movement_speed, auto_mode, previous_speed>>
ledgerVars == <<placed_tiles, master_object, undo_history, undo_positions>>
sceneVars == <<scene, last_mouse>>
vars == <<session, poseVars, cube_templates_inverted, modeVars,
          last_placed_position, ledgerVars, sceneVars, ret, commit_trail>>

\* The placement key of the current preview pose.
CurrentFace == get_green_face_world_position(location, rotation_euler, current_tile_size)
CurrentKey == PosKey(CurrentFace, rotation_euler, tile_size_index, inverted_mode)

(***************************************************************************)
(* The undo log and the ledger operations, as functions of the state.      *)
(***************************************************************************)
\* Mutant: the history is never trimmed.
store_NoEvict(master, tiles, history, positions) ==
    [history |-> Append(history, IF master = None THEN None ELSE Some(master[1])),
     positions |-> Append(positions, tiles)]

\* store_undo_snapshot: the log after the push.
store_undo_snapshot(master, tiles, history, positions) ==
    IF master = None
    THEN [history |-> Append(history, None),
          positions |-> Append(positions, tiles)]
    ELSE LET h == Append(history, Some(master[1]))
             p == Append(positions, tiles)
         IN  IF Len(h) > UndoLimit
             THEN [history |-> Tail(h), positions |-> Tail(p)]
             ELSE [history |-> h, positions |-> p]

\* rebuild_structure_mesh: the master object rebuilt from the ledger.
\* Mutant: the structure is kept, empty, when no tile remains.
rebuild_KeepsEmpty(tiles) ==
    Some(MeshOf(tiles))

rebuild_structure_mesh(tiles) ==
    IF tiles = {} THEN None ELSE Some(MeshOf(tiles))

\* The key place_tile_at_current_position builds with the preview at loc.
PlaceKey(loc) ==
    PosKey(get_green_face_world_position(loc, rotation_euler, current_tile_size),
           rotation_euler, tile_size_index, inverted_mode)

\* place_tile_at_current_position, "position already occupied": return False.
PlaceRejected ==
    [value |-> FALSE, tiles |-> placed_tiles, master |-> master_object,
     history |-> undo_history, positions |-> undo_positions,
     last |-> last_placed_position]

\* place_tile_at_current_position past the occupied check: snapshot, create
\* the plane, make it / join it to the master object, record the key and the
\* last placement, return True.
PlaceAccepted(loc) ==
    LET current_face_position ==
            get_green_face_world_position(loc, rotation_euler, current_tile_size)
        pos_key == PlaceKey(loc)
        log == store_undo_snapshot(master_object, placed_tiles,
                                   undo_history, undo_positions)
        placed == SetToBag({TileOf(pos_key)})
    IN  [value |-> TRUE,
         tiles |-> placed_tiles \cup {pos_key},
         master |-> IF master_object = None
                    THEN Some(placed)
                    ELSE Some(master_object[1] (+) placed),
         history |-> log.history, positions |-> log.positions,
         last |-> Some(<<current_face_position, rotation_euler, tile_size_index>>)]

\* Mutant: the occupied check is missing.
place_NoOccupiedCheck(loc) == PlaceAccepted(loc)

\* Mutant: the new plane is not joined into an existing master object.
place_NoJoin(loc) ==
    IF PlaceKey(loc) \in placed_tiles
    THEN PlaceRejected
    ELSE [PlaceAccepted(loc) EXCEPT
            !.master = IF master_object = None THEN @ ELSE master_object]

\* Mutant: the undo snapshot is stored before the occupied check.
place_SnapshotFirst(loc) ==
    IF PlaceKey(loc) \in placed_tiles
    THEN [PlaceRejected EXCEPT
            !.history = PlaceAccepted(loc).history,
            !.positions = PlaceAccepted(loc).positions]
    ELSE PlaceAccepted(loc)

\* Mutant: the occupied check does not look at the inverted flag.
place_IgnoresInverted(loc) ==
    IF \E k \in placed_tiles : [k EXCEPT !.inverted = inverted_mode] = PlaceKey(loc)
    THEN PlaceRejected
    ELSE PlaceAccepted(loc)

\* place_tile_at_current_position with the preview at loc: the return value
\* and the ledger state it leaves.
place_tile_at_current_position(loc) ==
    IF PlaceKey(loc) \in placed_tiles
    THEN PlaceRejected
    ELSE PlaceAccepted(loc)

\* undo_placement on an empty log: "Nothing to undo", return False.
UndoEmpty ==
    [value |-> FALSE, tiles |-> placed_tiles, master |-> master_object,
     history |-> undo_history, positions |-> undo_positions,
     last |-> last_placed_position]

\* undo_placement on a non-empty log: pop the last snapshot and restore it.
UndoPopped ==
    LET n == Len(undo_history)
        last_mesh == undo_history[n]
        last_positions == undo_positions[n]
        history == SubSeq(undo_history, 1, n - 1)
        positions == SubSeq(undo_positions, 1, n - 1)
    IN  IF last_mesh = None
        THEN [value |-> TRUE, tiles |-> {}, master |-> None,
              history |-> history, positions |-> positions, last |-> None]
        ELSE IF master_object # None
        THEN [value |-> TRUE, tiles |-> last_positions,
              master |-> Some(last_mesh[1]),
              history |-> history, positions |-> positions, last |-> None]
        ELSE [value |-> FALSE, tiles |-> placed_tiles, master |-> master_object,
              history |-> history, positions |-> positions,
              last |-> last_placed_position]

\* Mutant: the placement tracking is not restored from the snapshot.
undo_KeepsLedger ==
    IF undo_history = <<>>
    THEN UndoEmpty
    ELSE [UndoPopped EXCEPT !.tiles = placed_tiles]

\* Mutant: an empty log resets the structure instead of returning at once.
undo_EmptyResets ==
    IF undo_history = <<>>
    THEN [UndoEmpty EXCEPT !.tiles = {}, !.master = None]
    ELSE UndoPopped

\* Mutant: an undo leaves last_placed_position as it is.
undo_KeepsLastPlaced ==
    IF undo_history = <<>>
    THEN UndoEmpty
    ELSE [UndoPopped EXCEPT !.last = last_placed_position]

\* undo_placement: the return value and the state it leaves.
undo_placement ==
    IF undo_history = <<>>
    THEN UndoEmpty
    ELSE UndoPopped

\* Mutant: the snapshot is stored after the key is removed.
delete_SnapshotAfter ==
    LET tiles == placed_tiles \ {CurrentKey}
        log == store_undo_snapshot(master_object, tiles,
                                   undo_history, undo_positions)
    IN  IF CurrentKey \in placed_tiles
        THEN [value |-> TRUE, tiles |-> tiles,
              master |-> rebuild_structure_mesh(tiles),
              history |-> log.history, positions |-> log.positions,
              last |-> None]
        ELSE [value |-> FALSE, tiles |-> placed_tiles, master |-> master_object,
              history |-> undo_history, positions |-> undo_positions,
              last |-> last_placed_position]

\* Mutant: the delete builds its key from the preview centre.
delete_KeyFromCentre ==
    LET pos_key == PosKey(<< <<location[1], 0>>, <<location[2], 0>>, location[3] >>,
                          rotation_euler, tile_size_index, inverted_mode)
        log == store_undo_snapshot(master_object, placed_tiles,
                                   undo_history, undo_positions)
        tiles == placed_tiles \ {pos_key}
    IN  IF pos_key \in placed_tiles
        THEN [value |-> TRUE, tiles |-> tiles,
              master |-> rebuild_structure_mesh(tiles),
              history |-> log.history, positions |-> log.positions,
              last |-> None]
        ELSE [value |-> FALSE, tiles |-> placed_tiles, master |-> master_object,
              history |-> undo_history, positions |-> undo_positions,
              last |-> last_placed_position]

\* delete_tile_at_current_position: whether a tile was found, and the state
\* it leaves.
delete_tile_at_current_position ==
    LET pos_key == CurrentKey
        log == store_undo_snapshot(master_object, placed_tiles,
                                   undo_history, undo_positions)
        tiles == placed_tiles \ {pos_key}
    IN  IF pos_key \in placed_tiles
        THEN [value |-> TRUE, tiles |-> tiles,
              master |-> rebuild_structure_mesh(tiles),
              history |-> log.history, positions |-> log.positions,
              last |-> None]
        ELSE [value |-> FALSE, tiles |-> placed_tiles, master |-> master_object,
              history |-> undo_history, positions |-> undo_positions,
              last |-> last_placed_position]

\* The assignments a ledger operation with result r makes.
ApplyLedger(r) ==
    /\ placed_tiles' = r.tiles
    /\ master_object' = r.master
    /\ undo_history' = r.history
    /\ undo_positions' = r.positions

\* The history variable after a commit that returned r.
TrailAfterPlace(r) ==
    IF r.value
    THEN LET t == Append(commit_trail, placed_tiles)
         IN  IF Len(t) > UndoLimit THEN Tail(t) ELSE t
    ELSE commit_trail

(***************************************************************************)
(* change_tile_size: the pose it leaves.                                   *)
(***************************************************************************)
\* The index change_tile_size moves to from index:
\* (index + 1) % len(TILE_SIZES) or (index - 1) % len(TILE_SIZES)
size_index_after(index, direction) ==
    IF direction > 0
    THEN (index + 1) % Len(TILE_SIZES)
    ELSE (index - 1) % Len(TILE_SIZES)

\* size_index_after with direction, n times
RECURSIVE SizeTimes(_, _, _)
SizeTimes(n, index, direction) ==
    IF n = 0 THEN index
    ELSE size_index_after(SizeTimes(n - 1, index, direction), direction)

\* Mutant: the size index stops at the ends of TILE_SIZES instead of
\* wrapping around.
change_NoWrap(direction) ==
    LET new_index == IF direction > 0
                     THEN (IF tile_size_index + 1 < Len(TILE_SIZES)
                           THEN tile_size_index + 1 ELSE tile_size_index)
                     ELSE (IF tile_size_index > 0
                           THEN tile_size_index - 1 ELSE tile_size_index)
        old_location == location
        preserve_height == CurrentFace[3]
        new_size == TILE_SIZES[new_index + 1]
        new_half_size == new_size \div 2
        new_cube_center_z == preserve_height + new_half_size
        snapped_base ==
            IF movement_speed = 1
            THEN <<Round(old_location[1], 20) * 20,
                   Round(old_location[2], 20) * 20,
                   new_cube_center_z>>
            ELSE <<old_location[1], old_location[2], new_cube_center_z>>
    IN  [index |-> new_index, size |-> new_size, location |-> snapped_base]

change_tile_size(direction) ==
    LET old_index == tile_size_index
        new_index == IF direction > 0
                     THEN (tile_size_index + 1) % Len(TILE_SIZES)
                     ELSE (tile_size_index - 1) % Len(TILE_SIZES)
        old_location == location
        preserve_height == CurrentFace[3]
        new_size == TILE_SIZES[new_index + 1]
        new_half_size == new_size \div 2
        new_cube_center_z == preserve_height + new_half_size
        snapped_base ==
            IF movement_speed = 1
            THEN <<Round(old_location[1], 20) * 20,
                   Round(old_location[2], 20) * 20,
                   new_cube_center_z>>
            ELSE <<old_location[1], old_location[2], new_cube_center_z>>
    IN  [index |-> new_index, size |-> new_size, location |-> snapped_base]

(***************************************************************************)
(* The handlers of modal, one action per input event.                      *)
(***************************************************************************)
Running == session = "RUNNING"

MoveKeys == {"W", "S", "A", "D", "Q", "E"}

\* Mutant: the Normal mode step is the tile size as well.
Step_AlwaysTileSize(shift) ==
    IF shift THEN PrecisionStep ELSE current_tile_size

\* The step of a movement key.
Step(shift) ==
    IF shift THEN PrecisionStep
    ELSE IF movement_speed = 1 THEN NormalStep
    ELSE current_tile_size

\* loc after a movement key, before snapping.
Moved(key, shift, view) ==
    LET step == Step(shift)
        vecs == get_view_relative_vectors(view)
        forward_vec == vecs[1]
        right_vec == vecs[2]
        loc == location
    IN  CASE key = "W" -> <<loc[1] + forward_vec[1] * step,
                            loc[2] + forward_vec[2] * step, loc[3]>>
          [] key = "S" -> <<loc[1] - forward_vec[1] * step,
                            loc[2] - forward_vec[2] * step, loc[3]>>
          [] key = "A" -> <<loc[1] - right_vec[1] * step,
                            loc[2] - right_vec[2] * step, loc[3]>>
          [] key = "D" -> <<loc[1] + right_vec[1] * step,
                            loc[2] + right_vec[2] * step, loc[3]>>
          [] key = "Q" -> <<loc[1], loc[2], loc[3] + step>>
          [] key = "E" -> <<loc[1], loc[2], loc[3] - step>>

\* Mutant: a Fast mode move is snapped like a Normal mode move.
SnappedMove_SnapsFast(key, shift, view) ==
    LET loc == Moved(key, shift, view)
    IN  IF shift THEN loc ELSE SnapHalfXY(loc)

\* Mutant: a move made with shift is snapped like a Normal mode move.
SnappedMove_SnapsPrecision(key, shift, view) ==
    LET loc == Moved(key, shift, view)
    IN  IF shift \/ movement_speed = 1 THEN SnapHalfXY(loc) ELSE loc

\* Mutant: a Normal mode move rounds Z to the 0.5 grid as well.
SnappedMove_SnapsHeight(key, shift, view) ==
    LET loc == Moved(key, shift, view)
    IN  IF shift THEN loc
        ELSE IF movement_speed = 1
        THEN <<SnapHalfXY(loc)[1], SnapHalfXY(loc)[2], Round(loc[3], 20) * 20>>
        ELSE loc

\* loc after a movement key and the snapping of its mode.
SnappedMove(key, shift, view) ==
    LET loc == Moved(key, shift, view)
    IN  IF shift THEN loc
        ELSE IF movement_speed = 1 THEN SnapHalfXY(loc)
        ELSE loc

\* Mutant: a movement key attempts the commit with auto-mode off as well.
KeyMove_AlwaysCommits(key, shift, view) ==
    /\ Running
    /\ UNCHANGED sceneVars
    /\ LET snapped_loc == SnappedMove(key, shift, view)
           r == place_tile_at_current_position(snapped_loc)
       IN  /\ location' = snapped_loc
           /\ base_location' = snapped_loc
           /\ ApplyLedger(r)
           /\ last_placed_position' = IF r.value THEN r.last ELSE None
           /\ ret' = [op |-> "move", value |-> r.value]
           /\ commit_trail' = TrailAfterPlace(r)
    /\ UNCHANGED <<session, rotation_euler, rotation_state, tile_size_index,
                   current_tile_size, inverted_mode, cube_templates_inverted,
                   modeVars>>

\* W/S/A/D/Q/E (and the arrow / page keys), with or without shift.
KeyMove(key, shift, view) ==
    /\ Running
    /\ UNCHANGED sceneVars
    /\ LET snapped_loc == SnappedMove(key, shift, view)
           r == place_tile_at_current_position(snapped_loc)
       IN  /\ location' = snapped_loc
           /\ base_location' = snapped_loc
           /\ IF auto_mode
              THEN /\ ApplyLedger(r)
                   /\ last_placed_position' = IF r.value THEN r.last ELSE None
                   /\ ret' = [op |-> "move", value |-> r.value]
                   /\ commit_trail' = TrailAfterPlace(r)
              ELSE /\ UNCHANGED <<ledgerVars, commit_trail>>
                   /\ last_placed_position' = None
                   /\ ret' = [op |-> "move", value |-> FALSE]
    /\ UNCHANGED <<session, rotation_euler, rotation_state, tile_size_index,
                   current_tile_size, inverted_mode, cube_templates_inverted,
                   modeVars>>

\* The scale at which a coordinate of n fortieths has a 24 bit mantissa:
\* the least k >= from with n * 2^k / 40 >= 2^23 (n > 0).
MantissaShift(n, from) ==
    LET try[k \in Nat] ==
            IF n * 2^k >= 40 * 2^23 THEN k ELSE try[k + 1]
    IN  try[from]

\* (old - new).length > 0.1 for two points that differ by exactly 0.1 along
\* one axis, old_c and new_c being their coordinates on it.  mathutils
\* vectors hold single precision floats: new_c, a multiple of 0.5, is held
\* exactly; old_c, a multiple of 0.1, is held as the nearest float, m / 2^k;
\* their difference is exact, and it is compared with 0.1.
TieIsLonger(old_c, new_c) ==
    LET k == MantissaShift(Abs(old_c), 0)
        m == Round(Abs(old_c) * 2^k, 40)
    IN  Abs(40 * m - Abs(new_c) * 2^k) > MinAutoMove * 2^k

\* (old_location - snapped_location).length > 0.1
MovedEnough(old_location, snapped_location) ==
    LET dx == old_location[1] - snapped_location[1]
        dy == old_location[2] - snapped_location[2]
        length2 == dx * dx + dy * dy
        min2 == MinAutoMove * MinAutoMove
    IN  IF length2 # min2 THEN length2 > min2
        ELSE IF dx # 0 THEN TieIsLonger(old_location[1], snapped_location[1])
        ELSE TieIsLonger(old_location[2], snapped_location[2])

\* MOUSEMOVE: update_preview_from_mouse.  mouse is the pointer position in
\* the region, hit the point where the ray through it meets the horizontal
\* plane at the preview's height (None when the ray is parallel to it or
\* no region is given), view the camera orientation.
MouseMove(shift, mouse, hit, view) ==
    /\ Running
    /\ UNCHANGED scene
    /\ UNCHANGED <<session, rotation_euler, rotation_state, tile_size_index,
                   current_tile_size, inverted_mode, cube_templates_inverted,
                   modeVars>>
    /\ LET idle == /\ UNCHANGED <<location, base_location,
                                   last_placed_position, ledgerVars,
                                   commit_trail>>
                   /\ ret' = [op |-> "mouse", value |-> FALSE]
           arrive(new_location, attempt) ==
               LET r == place_tile_at_current_position(new_location)
               IN  /\ location' = new_location
                   /\ base_location' = new_location
                   /\ IF auto_mode /\ attempt
                      THEN /\ ApplyLedger(r)
                           /\ last_placed_position' =
                                  IF r.value THEN r.last ELSE None
                           /\ ret' = [op |-> "mouse", value |-> r.value]
                           /\ commit_trail' = TrailAfterPlace(r)
                      ELSE /\ UNCHANGED <<ledgerVars, commit_trail>>
                           /\ last_placed_position' = None
                           /\ ret' = [op |-> "mouse", value |-> FALSE]
       IN  IF shift
           THEN IF last_mouse = None
                THEN last_mouse' = Some(mouse) /\ idle
                ELSE LET delta_x == mouse[1] - last_mouse[1][1]
                         delta_y == mouse[2] - last_mouse[1][2]
                         vecs == get_view_relative_vectors(view)
                         forward_vec == vecs[1]
                         right_vec == vecs[2]
                         step_size == PrecisionStep
                         sign == IF Abs(delta_y) > Abs(delta_x)
                                 THEN (IF delta_y > 0 THEN 1 ELSE -1)
                                 ELSE (IF delta_x > 0 THEN 1 ELSE -1)
                         vec == IF Abs(delta_y) > Abs(delta_x)
                                THEN forward_vec ELSE right_vec
                     IN  IF Abs(delta_x) < MovementThreshold
                            /\ Abs(delta_y) < MovementThreshold
                         THEN UNCHANGED last_mouse /\ idle
                         ELSE /\ last_mouse' = Some(mouse)
                              /\ arrive(<<location[1] + sign * vec[1] * step_size,
                                          location[2] + sign * vec[2] * step_size,
                                          location[3]>>, TRUE)
           ELSE /\ UNCHANGED last_mouse
                /\ IF hit = None
                   THEN idle
                   ELSE LET grid == IF movement_speed = 1 THEN NormalStep
                                    ELSE current_tile_size
                            snapped_location ==
                                <<Round(hit[1][1], grid) * grid,
                                  Round(hit[1][2], grid) * grid, location[3]>>
                        IN  arrive(snapped_location,
                                   MovedEnough(location, snapped_location))

\* The preset index TAB moves to: (rotation_state + 1) % len(CUBE_FACES)
cycle(state) == (state + 1) % Len(CUBE_FACES)

\* cycle applied n times
RECURSIVE CycleTimes(_, _)
CycleTimes(n, state) ==
    IF n = 0 THEN state ELSE cycle(CycleTimes(n - 1, state))

\* Mutant: TAB stops at the last preset instead of wrapping around.
KeyTab_NoWrap ==
    /\ Running
    /\ UNCHANGED sceneVars
    /\ rotation_state' = IF rotation_state + 1 < Len(CUBE_FACES)
                         THEN rotation_state + 1 ELSE rotation_state
    /\ rotation_euler' = CUBE_FACES[rotation_state' + 1]
    /\ location' = base_location
    /\ last_placed_position' = None
    /\ ret' = [op |-> "tab", value |-> TRUE]
    /\ UNCHANGED commit_trail
    /\ UNCHANGED <<session, base_location, tile_size_index, current_tile_size,
                   inverted_mode, cube_templates_inverted, modeVars, ledgerVars>>

\* Mutant: TAB leaves the last placement where it is.
KeyTab_KeepsLastPlaced ==
    /\ Running
    /\ UNCHANGED sceneVars
    /\ rotation_state' = (rotation_state + 1) % Len(CUBE_FACES)
    /\ rotation_euler' = CUBE_FACES[rotation_state' + 1]
    /\ location' = base_location
    /\ UNCHANGED last_placed_position
    /\ ret' = [op |-> "tab", value |-> TRUE]
    /\ UNCHANGED commit_trail
    /\ UNCHANGED <<session, base_location, tile_size_index, current_tile_size,
                   inverted_mode, cube_templates_inverted, modeVars, ledgerVars>>

\* TAB: next face preset.
KeyTab ==
    /\ Running
    /\ UNCHANGED sceneVars
    /\ rotation_state' = (rotation_state + 1) % Len(CUBE_FACES)
    /\ rotation_euler' = CUBE_FACES[rotation_state' + 1]
    /\ location' = base_location
    /\ last_placed_position' = None
    /\ ret' = [op |-> "tab", value |-> TRUE]
    /\ UNCHANGED commit_trail
    /\ UNCHANGED <<session, base_location, tile_size_index, current_tile_size,
                   inverted_mode, cube_templates_inverted, modeVars, ledgerVars>>

\* Mutant: the number key turns the preview on by that many presets.
KeyFace_Relative(face_number) ==
    /\ Running
    /\ UNCHANGED sceneVars
    /\ rotation_state' = (rotation_state + face_number) % Len(CUBE_FACES)
    /\ rotation_euler' = CUBE_FACES[rotation_state' + 1]
    /\ location' = base_location
    /\ last_placed_position' = None
    /\ ret' = [op |-> "face", value |-> TRUE]
    /\ UNCHANGED commit_trail
    /\ UNCHANGED <<session, base_location, tile_size_index, current_tile_size,
                   inverted_mode, cube_templates_inverted, modeVars, ledgerVars>>

\* 1-6 (and the numpad keys): direct face selection.
KeyFace(face_number) ==
    /\ Running
    /\ UNCHANGED sceneVars
    /\ rotation_state' = face_number
    /\ rotation_euler' = CUBE_FACES[face_number + 1]
    /\ location' = base_location
    /\ last_placed_position' = None
    /\ ret' = [op |-> "face", value |-> TRUE]
    /\ UNCHANGED commit_trail
    /\ UNCHANGED <<session, base_location, tile_size_index, current_tile_size,
                   inverted_mode, cube_templates_inverted, modeVars, ledgerVars>>

\* LEFTMOUSE inside the area of rotation icon face_index.
ClickIcon(face_index) ==
    /\ Running
    /\ UNCHANGED sceneVars
    /\ rotation_state' = face_index
    /\ rotation_euler' = CUBE_FACES[face_index + 1]
    /\ location' = base_location
    /\ last_placed_position' = None
    /\ ret' = [op |-> "icon", value |-> TRUE]
    /\ UNCHANGED commit_trail
    /\ UNCHANGED <<session, base_location, tile_size_index, current_tile_size,
                   inverted_mode, cube_templates_inverted, modeVars, ledgerVars>>

\* Mutant: R puts the preview back on the ground plane.
KeyR_ResetsHeight(ctrl) ==
    /\ Running
    /\ UNCHANGED sceneVars
    /\ rotation_euler' = [rotation_euler EXCEPT
                            ![3] = @ + (IF ctrl THEN -45 ELSE 45)]
    /\ location' = <<base_location[1], base_location[2], 0>>
    /\ last_placed_position' = None
    /\ ret' = [op |-> "spin", value |-> TRUE]
    /\ UNCHANGED commit_trail
    /\ UNCHANGED <<session, base_location, rotation_state, tile_size_index,
                   current_tile_size, inverted_mode, cube_templates_inverted,
                   modeVars, ledgerVars>>

\* R / Ctrl+R: 45 degrees around Z.
KeyR(ctrl) ==
    /\ Running
    /\ UNCHANGED sceneVars
    /\ rotation_euler' = [rotation_euler EXCEPT
                            ![3] = @ + (IF ctrl THEN -45 ELSE 45)]
    /\ location' = base_location
    /\ last_placed_position' = None
    /\ ret' = [op |-> "spin", value |-> TRUE]
    /\ UNCHANGED commit_trail
    /\ UNCHANGED <<session, base_location, rotation_state, tile_size_index,
                   current_tile_size, inverted_mode, cube_templates_inverted,
                   modeVars, ledgerVars>>

\* T (direction 1) and Ctrl + mouse wheel (direction 1 / -1).
ChangeSize(direction) ==
    /\ Running
    /\ UNCHANGED sceneVars
    /\ LET c == change_tile_size(direction)
       IN  /\ tile_size_index' = c.index
           /\ current_tile_size' = c.size
           /\ base_location' = c.location
           /\ location' = c.location
    /\ last_placed_position' = None
    /\ ret' = [op |-> "size", value |-> TRUE]
    /\ UNCHANGED commit_trail
    /\ UNCHANGED <<session, rotation_euler, rotation_state, inverted_mode,
                   cube_templates_inverted, modeVars, ledgerVars>>

\* Mutant: I toggles the flag whether or not inverted cubes are loaded.
KeyI_IgnoresAssets ==
    /\ Running
    /\ UNCHANGED sceneVars
    /\ UNCHANGED commit_trail
    /\ inverted_mode' = ~inverted_mode
    /\ base_location' = location
    /\ last_placed_position' = None
    /\ ret' = [op |-> "invert", value |-> cube_templates_inverted > 0]
    /\ UNCHANGED <<session, location, rotation_euler, rotation_state,
                   tile_size_index, current_tile_size, cube_templates_inverted,
                   modeVars, ledgerVars>>

\* I: toggle inverted mode when inverted cubes are loaded.
KeyI ==
    /\ Running
    /\ UNCHANGED sceneVars
    /\ UNCHANGED commit_trail
    /\ IF cube_templates_inverted > 0
       THEN /\ inverted_mode' = ~inverted_mode
            /\ base_location' = location
            /\ last_placed_position' = None
            /\ ret' = [op |-> "invert", value |-> TRUE]
       ELSE /\ UNCHANGED <<inverted_mode, base_location, last_placed_position>>
            /\ ret' = [op |-> "invert", value |-> FALSE]
    /\ UNCHANGED <<session, location, rotation_euler, rotation_state,
                   tile_size_index, current_tile_size, cube_templates_inverted,
                   modeVars, ledgerVars>>

\* Mutant: V toggles the speed in auto-mode too.
KeyV_IgnoresAuto ==
    /\ Running
    /\ UNCHANGED sceneVars
    /\ UNCHANGED commit_trail
    /\ movement_speed' = IF movement_speed = 1 THEN 2 ELSE 1
    /\ ret' = [op |-> "speed", value |-> ~auto_mode]
    /\ UNCHANGED <<session, poseVars, cube_templates_inverted, auto_mode,
                   previous_speed, last_placed_position, ledgerVars>>

\* V: toggle the speed, unless auto-mode is on.
KeyV ==
    /\ Running
    /\ UNCHANGED sceneVars
    /\ UNCHANGED commit_trail
    /\ IF auto_mode
       THEN /\ UNCHANGED movement_speed
            /\ ret' = [op |-> "speed", value |-> FALSE]
       ELSE /\ movement_speed' = IF movement_speed = 1 THEN 2 ELSE 1
            /\ ret' = [op |-> "speed", value |-> TRUE]
    /\ UNCHANGED <<session, poseVars, cube_templates_inverted, auto_mode,
                   previous_speed, last_placed_position, ledgerVars>>

\* Mutant: leaving auto-mode always goes back to Normal speed.
KeyX_ForgetsSpeed ==
    /\ Running
    /\ UNCHANGED sceneVars
    /\ IF ~auto_mode
       THEN /\ auto_mode' = TRUE
            /\ previous_speed' = movement_speed
            /\ movement_speed' = 2
       ELSE /\ auto_mode' = FALSE
            /\ movement_speed' = 1
            /\ UNCHANGED previous_speed
    /\ ret' = [op |-> "auto", value |-> TRUE]
    /\ UNCHANGED commit_trail
    /\ UNCHANGED <<session, poseVars, cube_templates_inverted,
                   last_placed_position, ledgerVars>>

\* X: toggle auto-mode.
KeyX ==
    /\ Running
    /\ UNCHANGED sceneVars
    /\ IF ~auto_mode
       THEN /\ auto_mode' = TRUE
            /\ previous_speed' = movement_speed
            /\ movement_speed' = 2
       ELSE /\ auto_mode' = FALSE
            /\ movement_speed' = previous_speed
            /\ UNCHANGED previous_speed
    /\ ret' = [op |-> "auto", value |-> TRUE]
    /\ UNCHANGED commit_trail
    /\ UNCHANGED <<session, poseVars, cube_templates_inverted,
                   last_placed_position, ledgerVars>>

\* SPACE, and LEFTMOUSE outside the rotation icons: place a tile.
KeySpace ==
    /\ Running
    /\ UNCHANGED sceneVars
    /\ LET r == place_tile_at_current_position(location)
       IN  /\ ApplyLedger(r)
           /\ last_placed_position' = r.last
           /\ ret' = [op |-> "place", value |-> r.value]
           /\ commit_trail' = TrailAfterPlace(r)
    /\ UNCHANGED <<session, poseVars, cube_templates_inverted, modeVars>>

\* C: delete the tile at the current pose.
KeyC ==
    /\ Running
    /\ UNCHANGED sceneVars
    /\ LET r == delete_tile_at_current_position
       IN  /\ ApplyLedger(r)
           /\ last_placed_position' = r.last
           /\ ret' = [op |-> "delete", value |-> r.value]
           /\ commit_trail' = IF r.value THEN <<>> ELSE commit_trail
    /\ UNCHANGED <<session, poseVars, cube_templates_inverted, modeVars>>

\* Ctrl+Z: undo.
KeyCtrlZ ==
    /\ Running
    /\ UNCHANGED sceneVars
    /\ LET r == undo_placement
       IN  /\ ApplyLedger(r)
           /\ last_placed_position' = r.last
           /\ ret' = [op |-> "undo", value |-> r.value]
           /\ commit_trail' = IF commit_trail = <<>> THEN <<>>
                              ELSE SubSeq(commit_trail, 1, Len(commit_trail) - 1)
    /\ UNCHANGED <<session, poseVars, cube_templates_inverted, modeVars>>

\* cleanup_tool: the preview and every template object are removed; the
\* master object is skipped by every removal loop.
CleanScene == [preview |-> FALSE, templates |-> 0, modal_handler |-> FALSE]

\* Mutant: the removal loops do not skip the master object.
cleanup_RemovesStructure == [scene |-> CleanScene, master |-> None]

cleanup_tool == [scene |-> CleanScene, master |-> master_object]

\* ESC / RIGHTMOUSE: cleanup_tool, then CANCELLED.  cleanup_tool removes the
\* preview, the templates and the undo meshes; it leaves master_object and
\* the operator's attributes as they are.
KeyEsc ==
    /\ Running
    /\ session' = "CANCELLED"
    /\ scene' = cleanup_tool.scene
    /\ master_object' = cleanup_tool.master
    /\ UNCHANGED last_mouse
    /\ ret' = [op |-> "cancel", value |-> TRUE]
    /\ UNCHANGED commit_trail
    /\ UNCHANGED <<poseVars, cube_templates_inverted, modeVars,
                   last_placed_position, placed_tiles, undo_history,
                   undo_positions>>

(***************************************************************************)
(* The state invoke leaves (load_tile_objects having succeeded).           *)
(***************************************************************************)
\* 3D cursor locations the session may be started at.
Cursors == {<<0, 0, 0>>, <<30, 0, 0>>}

\* Camera orientations offered to get_view_relative_vectors.
Views == {None,
          Some([f |-> <<2, 1>>, r |-> <<1, -2>>])}

Init ==
    /\ session = "RUNNING"
    /\ movement_speed = 1
    /\ auto_mode = FALSE
    /\ previous_speed = 1
    /\ inverted_mode = FALSE
    /\ cube_templates_inverted \in {0, 4}
    /\ tile_size_index = StartSizeIndex
    /\ current_tile_size = TILE_SIZES[StartSizeIndex + 1]
    /\ \E cursor_loc \in Cursors :
          /\ location = snap_to_grid(cursor_loc, 1, TILE_SIZES[StartSizeIndex + 1])
          /\ base_location = location
    /\ rotation_euler = <<0, 0, 0>>
    /\ rotation_state = 0
    /\ last_placed_position = None
    /\ placed_tiles = {}
    /\ master_object = None
    /\ undo_history = <<>>
    /\ undo_positions = <<>>
    /\ scene = [preview |-> TRUE,
                templates |-> 2 * Len(TILE_SIZES) + cube_templates_inverted,
                modal_handler |-> TRUE]
    /\ last_mouse = None
    /\ ret = [op |-> "invoke", value |-> TRUE]
    /\ commit_trail = <<>>

\* The value of an attribute invoke has not assigned.
Unassigned == <<"unassigned">>

\* Mutant: invoke returns CANCELLED without running cleanup_tool, leaving the
\* templates load_tile_objects had appended in the scene.
invoke_SkipsCleanup ==
    /\ session = "CANCELLED"
    /\ movement_speed = 1
    /\ auto_mode = FALSE
    /\ previous_speed = 1
    /\ inverted_mode = FALSE
    /\ cube_templates_inverted \in {0, 4}
    /\ tile_size_index = Unassigned
    /\ current_tile_size = Unassigned
    /\ location = Unassigned
    /\ base_location = Unassigned
    /\ rotation_euler = Unassigned
    /\ rotation_state = Unassigned
    /\ last_placed_position = Unassigned
    /\ placed_tiles = {}
    /\ master_object = None
    /\ undo_history = <<>>
    /\ undo_positions = <<>>
    /\ scene = [preview |-> FALSE,
                templates |-> Len(TILE_SIZES) + cube_templates_inverted,
                modal_handler |-> FALSE]
    /\ last_mouse = None
    /\ ret = [op |-> "invoke", value |-> FALSE]
    /\ commit_trail = <<>>

\* The state invoke leaves when load_tile_objects fails: the attributes
\* assigned before the load, cleanup_tool run, CANCELLED returned; no preview
\* is created, no modal handler is added, and the attributes assigned after
\* the load do not exist.
invoke_failed ==
    /\ session = "CANCELLED"
    /\ movement_speed = 1
    /\ auto_mode = FALSE
    /\ previous_speed = 1
    /\ inverted_mode = FALSE
    /\ cube_templates_inverted \in {0, 4}
    /\ tile_size_index = Unassigned
    /\ current_tile_size = Unassigned
    /\ location = Unassigned
    /\ base_location = Unassigned
    /\ rotation_euler = Unassigned
    /\ rotation_state = Unassigned
    /\ last_placed_position = Unassigned
    /\ placed_tiles = {}
    /\ master_object = None
    /\ undo_history = <<>>
    /\ undo_positions = <<>>
    /\ scene = cleanup_tool.scene
    /\ last_mouse = None
    /\ ret = [op |-> "invoke", value |-> FALSE]
    /\ commit_trail = <<>>

(***************************************************************************)
(* Spec: a session along the world X axis.  The input layer offers the     *)
(* unshifted movement keys while the preview stays on the segment          *)
(* 0..MaxCoord of the X axis, SPACE, C, Ctrl+Z, X and ESC, while the ledger *)
(* and the undo log stay within MaxTiles and MaxLog.                       *)
(***************************************************************************)
InBox(loc) == loc[1] \in 0..MaxCoord /\ loc[2] = 0 /\ loc[3] = 0

WithinBounds ==
    /\ Cardinality(placed_tiles) <= MaxTiles
    /\ Len(undo_history) <= MaxLog

Next ==
    \/ \E key \in MoveKeys, view \in Views :
          /\ InBox(SnappedMove(key, FALSE, view))
          /\ KeyMove(key, FALSE, view)
          /\ WithinBounds'
    \/ KeySpace /\ WithinBounds'
    \/ KeyC /\ WithinBounds'
    \/ KeyCtrlZ
    \/ KeyX
    \/ KeyEsc

Spec == Init /\ [][Next]_vars

(***************************************************************************)
(* SpecLog: commits, deletes and undos at the pose the session starts at.  *)
(* SPACE and C are offered while the log is shorter than LogRoom and no    *)
(* undo has been made yet; Ctrl+Z is always offered.                       *)
(***************************************************************************)
\* Bound: the log length up to which SpecLog offers SPACE and C.
LogRoom == 22

NextLog ==
    \/ ret.op # "undo" /\ Len(undo_history) < LogRoom /\ KeySpace
    \/ ret.op # "undo" /\ Len(undo_history) < LogRoom /\ KeyC
    \/ KeyCtrlZ

SpecLog == Init /\ [][NextLog]_vars

(***************************************************************************)
(* SpecRun: a run of auto-placed tiles along the X axis.  X switches       *)
(* auto-mode on, every D then moves one tile to the right and places a     *)
(* tile, up to RunLength tiles; once Ctrl+Z has been pressed only Ctrl+Z   *)
(* is offered.                                                             *)
(***************************************************************************)
\* Bound: the number of tiles a run places.
RunLength == 21

\* The number of D moves made in a run (the session starts at x = 0 or 40).
RunMoves == location[1] \div TILE_SIZES[StartSizeIndex + 1]

\* The key of the first tile of a run.
FirstRunKey ==
    LET size == TILE_SIZES[StartSizeIndex + 1]
        first_loc == <<(location[1] % size) + size, location[2], location[3]>>
    IN  PosKey(get_green_face_world_position(first_loc, rotation_euler, size),
               rotation_euler, StartSizeIndex, inverted_mode)

NextRun ==
    \/ ~auto_mode /\ ret.op # "undo" /\ KeyX
    \/ auto_mode /\ ret.op # "undo" /\ RunMoves < RunLength
         /\ KeyMove("D", FALSE, None)
    \/ KeyCtrlZ

SpecRun == Init /\ [][NextRun]_vars

(***************************************************************************)
(* SpecPose: the face presets, the tile sizes, the speed and the inverted  *)
(* mode, while the preview stays within MaxHeight of the ground plane.     *)
(***************************************************************************)
\* Bound: the farthest the preview centre gets from z = 0.
MaxHeight == 400

NextPose ==
    \/ KeyTab
    \/ \E face_number \in 0..(Len(CUBE_FACES) - 1) : KeyFace(face_number)
    \/ \E direction \in {1, -1} :
          /\ Abs(change_tile_size(direction).location[3]) <= MaxHeight
          /\ ChangeSize(direction)
    \/ KeyV
    \/ KeyI

SpecPose == Init /\ [][NextPose]_vars

(***************************************************************************)
(* SpecSpin: the face presets (TAB, 1-6, icon clicks) and the Z spin (R,   *)
(* Ctrl+R), while the spin stays within MaxSpin degrees of zero.           *)
(***************************************************************************)
\* Bound: the largest Z spin, in degrees, the input layer lets R reach.
MaxSpin == 360

Faces == 0..(Len(CUBE_FACES) - 1)

NextSpin ==
    \/ KeyTab
    \/ \E face_number \in Faces : KeyFace(face_number)
    \/ \E face_index \in Faces : ClickIcon(face_index)
    \/ \E ctrl \in BOOLEAN :
          /\ Abs(rotation_euler[3] + (IF ctrl THEN -45 ELSE 45)) <= MaxSpin
          /\ KeyR(ctrl)

SpecSpin == Init /\ [][NextSpin]_vars

(***************************************************************************)
(* SpecStart: invoke with load_tile_objects succeeding or failing, then    *)
(* the keys of SpecSpin and ESC while the session runs.                    *)
(***************************************************************************)
InitStart == Init \/ invoke_failed

NextStart == Running /\ (NextSpin \/ KeyEsc)

SpecStart == InitStart /\ [][NextStart]_vars

(***************************************************************************)
(* SpecMode: the speed, auto-mode and inverted-mode toggles (V, X, I)      *)
(* among moves along the X axis, SPACE and Ctrl+Z, while the ledger and    *)
(* the undo log hold at most ModeTiles entries.                            *)
(***************************************************************************)
\* Bound: the ledger and log sizes SpecMode lets a commit reach.
ModeTiles == 2

WithinModeBounds ==
    /\ Cardinality(placed_tiles) <= ModeTiles
    /\ Len(undo_history) <= ModeTiles

NextMode ==
    \/ KeyV
    \/ KeyX
    \/ \E key \in MoveKeys, view \in Views :
          /\ InBox(SnappedMove(key, FALSE, view))
          /\ KeyMove(key, FALSE, view)
          /\ WithinModeBounds'
    \/ KeySpace /\ WithinModeBounds'
    \/ KeyCtrlZ
    \/ KeyI

SpecMode == Init /\ [][NextMode]_vars

(***************************************************************************)
(* SpecAuto: auto-mode with keyboard and mouse moves.  X, the A / D keys   *)
(* with and without shift and mouse moves are offered while the preview    *)
(* stays on the segment 0..MaxCoord + AutoReach of the X axis and the      *)
(* ledger and the log hold at most AutoTiles entries.                      *)
(***************************************************************************)
\* Bound: how far past MaxCoord along X the preview gets in SpecAuto.
AutoReach == 4
\* Bound: the ledger and log sizes SpecAuto lets a commit reach.
AutoTiles == 1

\* Pointer positions and ray hits offered to update_preview_from_mouse.
Pixels == {<<0, 0>>, <<20, 0>>}
Hits == {None, Some(<<2, 0>>), Some(<<78, 1>>)}

AutoBox(loc) == loc[1] \in 0..(MaxCoord + AutoReach) /\ loc[2] = 0 /\ loc[3] = 0

WithinAutoBounds ==
    /\ Cardinality(placed_tiles) <= AutoTiles
    /\ Len(undo_history) <= AutoTiles

NextAuto ==
    \/ KeyX
    \/ \E key \in {"A", "D"}, shift \in BOOLEAN :
          /\ AutoBox(SnappedMove(key, shift, None))
          /\ KeyMove(key, shift, None)
          /\ WithinAutoBounds'
    \/ \E shift \in BOOLEAN, mouse \in Pixels, hit \in Hits, view \in Views :
          /\ MouseMove(shift, mouse, hit, view)
          /\ AutoBox(location')
          /\ WithinAutoBounds'

SpecAuto == Init /\ [][NextAuto]_vars

(***************************************************************************)
(* SpecTurn: commits around a full turn of Z spin.  The keys 1-6 choose    *)
(* the preset before the first spin and the first commit; R / Ctrl+R are   *)
(* offered while the Z spin stays within TurnSpin degrees of zero, SPACE   *)
(* while the ledger and the log hold at most TurnTiles entries.            *)
(***************************************************************************)
\* Bound: the largest Z spin, in degrees, SpecTurn lets R reach.
TurnSpin == 360
\* Bound: the ledger and log sizes SpecTurn lets a commit reach.
TurnTiles == 2

NextTurn ==
    \/ \E face_number \in Faces :
          /\ placed_tiles = {}
          /\ ret.op # "spin"
          /\ KeyFace(face_number)
    \/ \E ctrl \in BOOLEAN :
          /\ Abs(rotation_euler[3] + (IF ctrl THEN -45 ELSE 45)) <= TurnSpin
          /\ KeyR(ctrl)
    \/ /\ KeySpace
       /\ Cardinality(placed_tiles') <= TurnTiles
       /\ Len(undo_history') <= TurnTiles

SpecTurn == Init /\ [][NextTurn]_vars

(***************************************************************************)
(* SpecFace: commits in every orientation.  TAB, the keys 1-6 and R /      *)
(* Ctrl+R are offered while the Z spin stays within FaceSpin degrees of    *)
(* zero, SPACE while the ledger and the log hold at most FaceTiles         *)
(* entries.                                                                *)
(***************************************************************************)
\* Bound: the largest Z spin, in degrees, SpecFace lets R reach.
FaceSpin == 45
\* Bound: the ledger and log sizes SpecFace lets a commit reach.
FaceTiles == 1

NextFace ==
    \/ KeyTab
    \/ \E face_number \in Faces : KeyFace(face_number)
    \/ \E ctrl \in BOOLEAN :
          /\ Abs(rotation_euler[3] + (IF ctrl THEN -45 ELSE 45)) <= FaceSpin
          /\ KeyR(ctrl)
    \/ /\ KeySpace
       /\ Cardinality(placed_tiles') <= FaceTiles
       /\ Len(undo_history') <= FaceTiles

SpecFace == Init /\ [][NextFace]_vars

(***************************************************************************)
(* SpecGrid: the movement keys with and without shift under both camera    *)
(* orientations, the tile sizes and the speed toggle, on an empty ledger,  *)
(* while the preview centre stays within GridReach along X, GridSide       *)
(* along Y and GridHeight of the ground plane.                             *)
(***************************************************************************)
\* Bound: how far along X the preview gets in SpecGrid.
GridReach == 164
\* Bound: how far along Y the preview gets in SpecGrid.
GridSide == 4
\* Bound: how far from z = 0 the preview gets in SpecGrid.
GridHeight == 40

InGrid(loc) ==
    /\ loc[1] \in 0..GridReach
    /\ loc[2] \in 0..GridSide
    /\ loc[3] \in (-GridHeight)..GridHeight

NextGrid ==
    \/ \E key \in MoveKeys, shift \in BOOLEAN, view \in Views :
          /\ InGrid(SnappedMove(key, shift, view))
          /\ KeyMove(key, shift, view)
    \/ \E direction \in {1, -1} :
          /\ InGrid(change_tile_size(direction).location)
          /\ ChangeSize(direction)
    \/ KeyV

SpecGrid == Init /\ [][NextGrid]_vars

(***************************************************************************)
(* SpecCache: every handler that changes the pose, SPACE, V and X.  The    *)
(* preview stays within CacheReach along X and the Z spin within CacheSpin *)
(* degrees; T is offered on the Bottom preset, where the size change keeps *)
(* the face height; the ledger and the log hold at most CacheTiles         *)
(* entries; once the ledger holds a tile, keys are offered directly after  *)
(* a successful commit only.                                               *)
(***************************************************************************)
\* Bound: how far along X the preview gets in SpecCache.
CacheReach == 40
\* Bound: the largest Z spin, in degrees, SpecCache lets R reach.
CacheSpin == 45
\* Bound: the ledger and log sizes SpecCache lets a commit reach.
CacheTiles == 1

\* Ray hits offered to update_preview_from_mouse in SpecCache.
CacheHits == {None, Some(<<2, 0>>), Some(<<38, 1>>)}

InCache(loc) == loc[1] \in 0..CacheReach /\ loc[2] = 0

WithinCacheBounds ==
    /\ Cardinality(placed_tiles) <= CacheTiles
    /\ Len(undo_history) <= CacheTiles

\* The last handler committed a tile.
JustCommitted == ret.op \in {"place", "move", "mouse"} /\ ret.value

NextCache ==
    /\ placed_tiles = {} \/ JustCommitted
    /\ \/ \E key \in {"A", "D"} :
             /\ InCache(SnappedMove(key, FALSE, None))
             /\ KeyMove(key, FALSE, None)
             /\ WithinCacheBounds'
       \/ \E hit \in CacheHits :
             /\ MouseMove(FALSE, <<0, 0>>, hit, None)
             /\ InCache(location')
             /\ WithinCacheBounds'
       \/ KeyTab
       \/ \E face_number \in Faces : KeyFace(face_number)
       \/ \E face_index \in Faces : ClickIcon(face_index)
       \/ \E ctrl \in BOOLEAN :
             /\ Abs(rotation_euler[3] + (IF ctrl THEN -45 ELSE 45)) <= CacheSpin
             /\ KeyR(ctrl)
       \/ rotation_state = 0 /\ ChangeSize(1)
       \/ KeyI
       \/ KeySpace /\ WithinCacheBounds'
       \/ KeyV
       \/ KeyX

SpecCache == Init /\ [][NextCache]_vars

(***************************************************************************)
(* SpecPrecise: the moves made with shift held, by key and by mouse, at    *)
(* every tile size, both speeds and with auto-mode on and off.  The Bottom *)
(* preset stays; the preview centre stays within PreciseReach along X and  *)
(* PreciseSide along Y and its placement face within PreciseLift above the *)
(* height it starts at; T, V and X are offered while the ledger is empty,  *)
(* and the ledger and the log hold at most PreciseTiles entries.           *)
(***************************************************************************)
\* Bound: how far along X the preview gets in SpecPrecise.
PreciseReach == 8
\* Bound: how far along Y the preview gets in SpecPrecise.
PreciseSide == 4
\* Bound: how far the placement face rises in SpecPrecise.
PreciseLift == 4
\* Bound: the ledger and log sizes SpecPrecise lets a commit reach.
PreciseTiles == 1

\* Pointer positions offered to update_preview_from_mouse in SpecPrecise.
PrecisePixels == {<<0, 0>>, <<20, 0>>, <<0, 20>>}

InPrecise(loc) ==
    LET start_face == -(TILE_SIZES[StartSizeIndex + 1] \div 2)
        face == loc[3] - current_tile_size \div 2
    IN  /\ loc[1] \in 0..PreciseReach
        /\ loc[2] \in 0..PreciseSide
        /\ face \in start_face..(start_face + PreciseLift)

WithinPreciseBounds ==
    /\ Cardinality(placed_tiles) <= PreciseTiles
    /\ Len(undo_history) <= PreciseTiles

NextPrecise ==
    \/ \E key \in MoveKeys, view \in Views :
          /\ InPrecise(SnappedMove(key, TRUE, view))
          /\ KeyMove(key, TRUE, view)
          /\ WithinPreciseBounds'
    \/ \E mouse \in PrecisePixels, view \in Views :
          /\ MouseMove(TRUE, mouse, None, view)
          /\ InPrecise(location')
          /\ WithinPreciseBounds'
    \/ placed_tiles = {} /\ ChangeSize(1)
    \/ placed_tiles = {} /\ KeyV
    \/ placed_tiles = {} /\ KeyX

SpecPrecise == Init /\ [][NextPrecise]_vars

(***************************************************************************)
(* SpecSnap: snap_to_grid and snap_to_grid_horizontal_only applied, again  *)
(* and again, to the points of SnapPoints at every tile size and both      *)
(* speeds.  location holds the argument and then the result.               *)
(***************************************************************************)
\* Bound: the largest |x| of a point given to the snapping functions.
SnapReach == 90

\* The points: every fortieth of a unit along X (the ties of every grid
\* among them), on and off the grids along Y and Z.
SnapPoints ==
    {<<x, y, z>> : x \in (-SnapReach)..SnapReach, y \in {0, 25}, z \in {0, -15}}

InitSnap ==
    /\ session = "RUNNING"
    /\ movement_speed \in {1, 2}
    /\ auto_mode = FALSE
    /\ previous_speed = 1
    /\ inverted_mode = FALSE
    /\ cube_templates_inverted = 0
    /\ tile_size_index \in 0..(Len(TILE_SIZES) - 1)
    /\ current_tile_size = TILE_SIZES[tile_size_index + 1]
    /\ location \in SnapPoints
    /\ base_location = location
    /\ rotation_euler = <<0, 0, 0>>
    /\ rotation_state = 0
    /\ last_placed_position = None
    /\ placed_tiles = {}
    /\ master_object = None
    /\ undo_history = <<>>
    /\ undo_positions = <<>>
    /\ scene = [preview |-> TRUE, templates |-> 2 * Len(TILE_SIZES),
                modal_handler |-> TRUE]
    /\ last_mouse = None
    /\ ret = [op |-> "point", value |-> TRUE]
    /\ commit_trail = <<>>

\* location = snap_to_grid(location)
SnapAll ==
    /\ location' = snap_to_grid(location, movement_speed, current_tile_size)
    /\ base_location' = location'
    /\ ret' = [op |-> "snap", value |-> TRUE]
    /\ UNCHANGED <<session, rotation_euler, rotation_state, tile_size_index,
                   current_tile_size, inverted_mode, cube_templates_inverted,
                   modeVars, last_placed_position, ledgerVars, sceneVars,
                   commit_trail>>

\* location = snap_to_grid_horizontal_only(location)
SnapHorizontal ==
    /\ location' = snap_to_grid_horizontal_only(location, movement_speed,
                                                 current_tile_size)
    /\ base_location' = location'
    /\ ret' = [op |-> "snap_xy", value |-> TRUE]
    /\ UNCHANGED <<session, rotation_euler, rotation_state, tile_size_index,
                   current_tile_size, inverted_mode, cube_templates_inverted,
                   modeVars, last_placed_position, ledgerVars, sceneVars,
                   commit_trail>>

NextSnap == SnapAll \/ SnapHorizontal

SpecSnap == InitSnap /\ [][NextSnap]_vars

(***************************************************************************)
(* SpecView: get_view_relative_vectors applied to the camera orientations  *)
(* of CameraViews and to a context without region data.  ret holds the     *)
(* argument and the two vectors returned.                                  *)
(***************************************************************************)
\* Bound: the largest horizontal component, in arbitrary units, of the
\* camera's forward and right directions.
ViewReach == 2

\* The horizontal components of the camera's forward and right directions:
\* every pair of them (the camera looking straight down or rolled on its
\* side gives <<0, 0>>), the two never both vertical.
CameraViews ==
    LET flat == ((-ViewReach)..ViewReach) \X ((-ViewReach)..ViewReach)
    IN  {Some([f |-> f, r |-> r]) : f \in flat, r \in flat \ {<<0, 0>>}}
        \cup {Some([f |-> f, r |-> <<0, 0>>]) : f \in flat \ {<<0, 0>>}}

ViewVectors(view) ==
    /\ ret.op = "invoke"
    /\ ret' = [op |-> "vectors",
               value |-> [view |-> view,
                          vectors |-> get_view_relative_vectors(view)]]
    /\ UNCHANGED <<session, poseVars, cube_templates_inverted, modeVars,
                   last_placed_position, ledgerVars, sceneVars, commit_trail>>

NextView == \E view \in CameraViews \cup {None} : ViewVectors(view)

SpecView == Init /\ [][NextView]_vars

(***************************************************************************)
(* SpecStep: one movement key without shift, pressed at every tile size,   *)
(* speed, face preset and inverted flag, on an empty ledger and on a       *)
(* ledger of one tile, from points on and off the grid.                    *)
(***************************************************************************)
\* The preview centres the key is pressed at.
StepPoints == {<<0, 0, 0>>, <<40, 20, -20>>, <<4, 8, 12>>}

\* The tile the one-tile ledger holds: the first commit of a session
\* started at the origin.
StepTile ==
    PosKey(get_green_face_world_position(<<0, 0, 0>>, CUBE_FACES[1],
                                         TILE_SIZES[StartSizeIndex + 1]),
           CUBE_FACES[1], StartSizeIndex, FALSE)

InitStep ==
    /\ session = "RUNNING"
    /\ movement_speed \in {1, 2}
    /\ auto_mode = FALSE
    /\ previous_speed = 1
    /\ inverted_mode \in BOOLEAN
    /\ cube_templates_inverted = 4
    /\ tile_size_index \in 0..(Len(TILE_SIZES) - 1)
    /\ current_tile_size = TILE_SIZES[tile_size_index + 1]
    /\ location \in StepPoints
    /\ base_location = location
    /\ rotation_state \in Faces
    /\ rotation_euler = CUBE_FACES[rotation_state + 1]
    /\ last_placed_position = None
    /\ \/ /\ placed_tiles = {}
          /\ master_object = None
          /\ undo_history = <<>>
          /\ undo_positions = <<>>
          /\ commit_trail = <<>>
       \/ /\ placed_tiles = {StepTile}
          /\ master_object = Some(MeshOf(placed_tiles))
          /\ undo_history = <<None>>
          /\ undo_positions = <<{}>>
          /\ commit_trail = <<{}>>
    /\ scene = [preview |-> TRUE,
                templates |-> 2 * Len(TILE_SIZES) + cube_templates_inverted,
                modal_handler |-> TRUE]
    /\ last_mouse = None
    /\ ret = [op |-> "point", value |-> TRUE]

NextStep ==
    \E key \in MoveKeys, view \in Views :
        /\ ret.op = "point"
        /\ KeyMove(key, FALSE, view)

SpecStep == InitStep /\ [][NextStep]_vars

(***************************************************************************)
(* Properties.                                                             *)
(***************************************************************************)
\* The tiles of the persistent structure.
StructureTiles == IF master_object = None THEN EmptyBag ELSE master_object[1]

\* The last step committed: SPACE, or a movement key in auto-mode.
Committed == ret.op = "place" \/ (ret.op = "move" /\ auto_mode)

\* C1: a commit that follows a commit with no pose change in between returns
\* False and leaves the ledger as the earlier commit left it: of consecutive
\* commits at one pose only the first can succeed.
C1_ExactlyOnce ==
    [][(Committed /\ ret'.op = "place")
         => (ret'.value = FALSE /\ placed_tiles' = placed_tiles)]_vars

\* A second commit at the pose of a successful one has been rejected.
C1_Witness ==
    /\ ret = [op |-> "place", value |-> FALSE]
    /\ last_placed_position # None

\* C2: while commits made since the last delete are not yet undone
\* (commit_trail holds the ledgers they found, at most 20 of them), an undo
\* returns True and puts the ledger back to the one the latest of them
\* found; so k <= 20 commits followed by k undos end in the ledger the
\* commits started from.
C2_UndoInvertsCommit ==
    [][(ret'.op = "undo" /\ commit_trail # <<>>)
         => (ret'.value = TRUE
             /\ placed_tiles' = commit_trail[Len(commit_trail)])]_vars

\* The second of two commits has been undone; the first is still to undo.
C2_Witness ==
    /\ ret = [op |-> "undo", value |-> TRUE]
    /\ Len(commit_trail) = 1
    /\ Cardinality(placed_tiles) = 1
    /\ Len(undo_history) = 1

\* C3: in every reachable state the undo log holds at most 20 snapshots.
C3_LogBounded == Len(undo_history) <= UndoLimit

\* C4: an undo that directly follows a successful delete returns True and
\* restores the ledger to the key set held just before the delete.
C4_UndoInvertsDelete ==
    [][(ret = [op |-> "delete", value |-> TRUE] /\ ret'.op = "undo")
         => (ret'.value = TRUE
             /\ placed_tiles' = undo_positions[Len(undo_positions)])]_vars

C6_SnapshotThenMutate ==
    [][(ret'.op \in {"place", "move", "delete"} /\ placed_tiles' # placed_tiles)
         => LET pushed == Append(undo_positions, placed_tiles)
            IN  /\ undo_positions' \in {pushed, Tail(pushed)}
                /\ undo_positions' = Tail(pushed) => Len(pushed) > UndoLimit
                /\ Len(undo_history') = Len(undo_positions')
                /\ undo_positions'[Len(undo_positions')] = placed_tiles]_vars

\* A delete has removed one of two tiles, with a log of at least two entries.
C6_Witness ==
    /\ ret = [op |-> "delete", value |-> TRUE]
    /\ Cardinality(placed_tiles) = 1
    /\ Len(undo_positions) >= 2
    /\ undo_positions[Len(undo_positions)] # placed_tiles

\* C7: in a run from a fresh session, after 21 commits at distinct poses
\* the log holds exactly 20 snapshots; the undos that follow succeed while
\* the log is not empty, the 20th leaves the ledger with just the key of the
\* first commit, and the 21st returns False with that ledger unchanged.
C7_TwentyOneCommits ==
    RunMoves = UndoLimit + 1 =>
        /\ ret.op = "move" =>
              /\ ret.value
              /\ Cardinality(placed_tiles) = UndoLimit + 1
              /\ Len(undo_history) = UndoLimit
              /\ Len(undo_positions) = UndoLimit
        /\ (ret.op = "undo" /\ ret.value) =>
              /\ Cardinality(placed_tiles) = Len(undo_history) + 1
              /\ FirstRunKey \in placed_tiles
        /\ (ret.op = "undo" /\ ~ret.value) =>
              /\ undo_history = <<>>
              /\ placed_tiles = {FirstRunKey}

\* The 21st undo after 21 commits has reported nothing to undo.
C7_Witness ==
    /\ RunMoves = UndoLimit + 1
    /\ ret = [op |-> "undo", value |-> FALSE]
    /\ placed_tiles = {FirstRunKey}

\* C8: a commit at a pose whose key is in the ledger returns False and
\* leaves the ledger, the undo log, the structure and the last-placed cache
\* unchanged.
C8_OccupiedRejected ==
    [][(ret'.op = "place" /\ CurrentKey \in placed_tiles)
         => (ret'.value = FALSE
             /\ UNCHANGED <<ledgerVars, last_placed_position>>)]_vars

\* A commit at an occupied pose has been rejected.
C8_Witness ==
    /\ ret = [op |-> "place", value |-> FALSE]
    /\ CurrentKey \in placed_tiles
    /\ undo_history # <<>>

\* C9: an undo with an empty log returns False and leaves the ledger, the
\* structure, the last-placed cache and the log unchanged.
C9_EmptyUndoRejected ==
    [][(ret'.op = "undo" /\ undo_history = <<>>)
         => (ret'.value = FALSE
             /\ UNCHANGED <<ledgerVars, last_placed_position>>)]_vars

\* An undo has found the log empty while the structure still has tiles.
C9_Witness ==
    /\ ret = [op |-> "undo", value |-> FALSE]
    /\ undo_history = <<>>
    /\ master_object # None
    /\ Cardinality(placed_tiles) >= 1

\* C10: a size change leaves the world Z of the placement face where it was.
C10_FaceHeightPreserved ==
    [][ret'.op = "size" => CurrentFace'[3] = CurrentFace[3]]_vars

\* C11: a preset change (TAB, 1-6 or an icon click) made after n spins of
\* 45 degrees leaves the preview at the new preset's rotation plus the same
\* n * 45 degrees around Z.
C11_SpinSurvivesPreset ==
    [][ret'.op \in {"tab", "face", "icon"}
         => rotation_euler' =
              [CUBE_FACES[rotation_state' + 1] EXCEPT
                 ![3] = @ + (rotation_euler[3] - CUBE_FACES[rotation_state + 1][3])]]_vars

\* C12: ESC / right mouse in a running session ends it in that step, with
\* the preview and the templates gone from the scene, and leaves the
\* ledger and the persistent structure as they were: a non-empty ledger
\* still has its structure, with one tile per key.
C12_TeardownKeepsStructure ==
    [][(session = "RUNNING" /\ ret'.op = "cancel")
         => /\ session' = "CANCELLED"
            /\ ~scene'.preview
            /\ scene'.templates = 0
            /\ placed_tiles' = placed_tiles
            /\ master_object' = master_object
            /\ placed_tiles # {} =>
                  /\ master_object' # None
                  /\ master_object'[1] = MeshOf(placed_tiles)]_vars

\* A session with two placed tiles has been cancelled.
C12_Witness ==
    /\ session = "CANCELLED"
    /\ ret.op = "cancel"
    /\ Cardinality(placed_tiles) = 2
    /\ master_object # None

\* C13: when load_tile_objects fails, invoke ends CANCELLED with no preview
\* created, no modal handler added, the scene cleaned of templates, and the
\* ledger, the structure and the undo log empty; the session is never
\* running.
C13_MissingAssetAborts ==
    (ret.op = "invoke" /\ ~ret.value) =>
        /\ session = "CANCELLED"
        /\ ~scene.preview
        /\ ~scene.modal_handler
        /\ scene.templates = 0
        /\ placed_tiles = {}
        /\ master_object = None
        /\ undo_history = <<>>
        /\ undo_positions = <<>>

\* invoke has failed to load the assets.
C13_Witness ==
    /\ ret = [op |-> "invoke", value |-> FALSE]
    /\ session = "CANCELLED"

\* C14: while auto-mode is on the speed is Fast; V pressed while auto-mode
\* is on is rejected and changes nothing of the session.
C14_AutoForcesFast ==
    [][/\ auto_mode' => movement_speed' = 2
       /\ (ret'.op = "speed" /\ auto_mode)
            => /\ ret'.value = FALSE
               /\ UNCHANGED <<session, poseVars, cube_templates_inverted,
                              modeVars, last_placed_position, ledgerVars,
                              sceneVars>>]_vars

\* V has been rejected in auto-mode, with a tile placed.
C14_Witness ==
    /\ ret = [op |-> "speed", value |-> FALSE]
    /\ auto_mode
    /\ movement_speed = 2
    /\ placed_tiles # {}

\* C15: enabling auto-mode remembers the speed in effect, nothing done while
\* auto-mode stays on changes what is remembered, and disabling auto-mode
\* sets the speed to what is remembered.
C15_AutoRestoresSpeed ==
    [][/\ (~auto_mode /\ auto_mode') => previous_speed' = movement_speed
       /\ (auto_mode /\ auto_mode') => previous_speed' = previous_speed
       /\ (auto_mode /\ ~auto_mode') => movement_speed' = previous_speed]_vars

\* Auto-mode has been switched off after a commit and the speed is Normal
\* again.
C15_Witness ==
    /\ ret.op = "auto"
    /\ ~auto_mode
    /\ movement_speed = 1
    /\ placed_tiles # {}

\* C17: with no inverted cubes loaded the I key changes nothing of the
\* session; with inverted cubes loaded it flips the inverted flag, clears
\* the last-placed cache and changes nothing else: the preview keeps its
\* rotation and its position.
C17_InvertToggle ==
    [][ret'.op = "invert"
         => IF cube_templates_inverted = 0
            THEN /\ ret'.value = FALSE
                 /\ UNCHANGED <<session, poseVars, cube_templates_inverted,
                                modeVars, last_placed_position, ledgerVars,
                                sceneVars>>
            ELSE /\ inverted_mode' = ~inverted_mode
                 /\ last_placed_position' = None
                 /\ UNCHANGED <<session, location, base_location,
                                rotation_euler, rotation_state, tile_size_index,
                                current_tile_size, cube_templates_inverted,
                                modeVars, ledgerVars, sceneVars>>]_vars

\* I has been refused, with no inverted cubes loaded, right after a commit
\* whose cache entry is still there.
C17_Witness ==
    /\ ret = [op |-> "invert", value |-> FALSE]
    /\ cube_templates_inverted = 0
    /\ last_placed_position # None
    /\ placed_tiles # {}

\* C16: in auto-mode a keyboard or mouse move that changes the preview pose
\* ends with the placement key of the new pose in the ledger.
C16_AutoMoveCommits ==
    [][(auto_mode /\ ret'.op \in {"move", "mouse"} /\ location' # location)
         => CurrentKey' \in placed_tiles']_vars

\* C18: a successful commit adds exactly one key, whose position is the
\* preview centre plus the vector (0, 0, -size/2) turned by the preview
\* rotation (Euler XYZ), written out here in closed form, whose rotation is
\* the preview rotation and whose size index and inverted flag are the
\* current ones; at size 2.0, Bottom, not inverted, centre (0,0,0) and an
\* empty ledger the ledger becomes the single key (0,0,-1, 0,0,0, 2, false).
C18_KeyFromFace ==
    [][(ret'.op = "place" /\ ret'.value) =>
         LET h == current_tile_size \div 2
             ca == Cos90(rotation_euler[1])
             sa == Sin90(rotation_euler[1])
             cb == Cos90(rotation_euler[2])
             sb == Sin90(rotation_euler[2])
             cc == Cos45(rotation_euler[3])
             sc == Sin45(rotation_euler[3])
             key == [x |-> <<location[1] - h * (cc[1] * sb * ca + sc[1] * sa),
                             -h * (cc[2] * sb * ca + sc[2] * sa)>>,
                     y |-> <<location[2] - h * (sc[1] * sb * ca - cc[1] * sa),
                             -h * (sc[2] * sb * ca - cc[2] * sa)>>,
                     z |-> location[3] - h * cb * ca,
                     rx |-> rotation_euler[1], ry |-> rotation_euler[2],
                     rz |-> rotation_euler[3],
                     size_index |-> tile_size_index, inverted |-> inverted_mode]
         IN  /\ key \notin placed_tiles
             /\ placed_tiles' = placed_tiles \cup {key}
             /\ (/\ placed_tiles = {}
                 /\ location = <<0, 0, 0>>
                 /\ rotation_euler = <<0, 0, 0>>
                 /\ current_tile_size = 80
                 /\ ~inverted_mode)
                => placed_tiles' = {[x |-> <<0, 0>>, y |-> <<0, 0>>, z |-> -40,
                                     rx |-> 0, ry |-> 0, rz |-> 0,
                                     size_index |-> 2, inverted |-> FALSE]}]_vars

\* SPACE has committed the first tile at size 2.0, Bottom, not inverted,
\* with the preview centre at the origin.
C18_Witness ==
    /\ ret = [op |-> "place", value |-> TRUE]
    /\ location = <<0, 0, 0>>
    /\ rotation_euler = CUBE_FACES[1]
    /\ current_tile_size = 80
    /\ ~inverted_mode
    /\ Len(undo_history) = 1
    /\ placed_tiles = {[x |-> <<0, 0>>, y |-> <<0, 0>>, z |-> -40,
                        rx |-> 0, ry |-> 0, rz |-> 0,
                        size_index |-> 2, inverted |-> FALSE]}

\* C19: SPACE is rejected exactly when the ledger holds a key whose eight
\* components (face x, y, z, rotation x, y, z, size index, inverted flag)
\* all equal those of the current pose; a rejected commit leaves the ledger,
\* the structure and the log alone, an accepted one makes the ledger one
\* key larger.
C19_OccupiedIffSameKey ==
    [][ret'.op = "place" =>
         LET occupied ==
                 \E k \in placed_tiles :
                     /\ k.x = CurrentFace[1]
                     /\ k.y = CurrentFace[2]
                     /\ k.z = CurrentFace[3]
                     /\ k.rx = rotation_euler[1]
                     /\ k.ry = rotation_euler[2]
                     /\ k.rz = rotation_euler[3]
                     /\ k.size_index = tile_size_index
                     /\ k.inverted = inverted_mode
         IN  /\ ret'.value = ~occupied
             /\ occupied => UNCHANGED ledgerVars
             /\ ~occupied =>
                   /\ placed_tiles \subseteq placed_tiles'
                   /\ Cardinality(placed_tiles') = Cardinality(placed_tiles) + 1]_vars

\* SPACE has just committed a second tile whose key differs from the first
\* one's in the inverted flag only.
C19_Witness ==
    /\ ret = [op |-> "place", value |-> TRUE]
    /\ Cardinality(placed_tiles) = 2
    /\ \E k \in placed_tiles :
          /\ [k EXCEPT !.inverted = ~k.inverted] \in placed_tiles
          /\ k = CurrentKey

\* C20: C finds a tile exactly when the key a commit at the current pose
\* would use is in the ledger.  It then removes that key and no other, and
\* the structure is the mesh of the keys left (no structure when none is
\* left); right after a successful commit (SPACE, or an auto-mode move) the
\* ledger is back to what it was before that commit.  When the key is not
\* in the ledger, the ledger, the structure and the log stay as they are.
C20_DeleteUsesCommitKey ==
    [][ret'.op = "delete" =>
         LET key == PlaceKey(location)
         IN  /\ ret'.value = (key \in placed_tiles)
             /\ key \in placed_tiles =>
                   /\ placed_tiles' = placed_tiles \ {key}
                   /\ master_object' = IF placed_tiles' = {} THEN None
                                        ELSE Some(MeshOf(placed_tiles'))
                   /\ (ret.op \in {"place", "move"} /\ ret.value)
                        => /\ commit_trail # <<>>
                           /\ placed_tiles' = commit_trail[Len(commit_trail)]
             /\ key \notin placed_tiles => UNCHANGED ledgerVars]_vars

\* C has just removed the second of two committed tiles: the ledger holds
\* the first one again, the structure is its mesh, and the snapshot the
\* delete pushed holds both.
C20_Witness ==
    /\ ret = [op |-> "delete", value |-> TRUE]
    /\ Cardinality(placed_tiles) = 1
    /\ CurrentKey \notin placed_tiles
    /\ master_object = Some(MeshOf(placed_tiles))
    /\ Len(undo_positions) = 3
    /\ undo_positions[3] = placed_tiles \cup {CurrentKey}
    /\ undo_positions[2] = placed_tiles

\* A movement key pressed without shift.
PlainMove == \E key \in MoveKeys, view \in Views : KeyMove(key, FALSE, view)

\* C21 as stated: after a keyboard move in Normal mode without shift X and Y
\* are multiples of 0.25 at the sizes 0.5 and 1.0, of 0.5 at size 2.0 and of
\* 1.0 at size 4.0.
C21_MoveOnSizeGrid ==
    [][(PlainMove /\ movement_speed = 1) =>
         LET grid == IF current_tile_size \in {20, 40} THEN 10
                     ELSE IF current_tile_size = 80 THEN 20
                     ELSE 40
         IN  location'[1] % grid = 0 /\ location'[2] % grid = 0]_vars

\* C21, amended: after a keyboard move in Normal mode without shift X and Y
\* are multiples of 0.5, whatever the tile size; Z is the Z the move gives,
\* unrounded.
C21_MoveOnHalfGrid ==
    [][(PlainMove /\ movement_speed = 1) =>
         /\ location'[1] % 20 = 0
         /\ location'[2] % 20 = 0
         /\ location'[3] \in {location[3], location[3] + 20, location[3] - 20}]_vars

\* A Normal mode move at size 4.0 has left the preview at an odd multiple
\* of 0.5 on X, at a height off the 0.5 grid.
C21_Witness ==
    /\ ret.op = "move"
    /\ movement_speed = 1
    /\ current_tile_size = 160
    /\ location[1] % 40 = 20
    /\ location[2] = 0
    /\ location[3] % 20 # 0

\* C22: a point snap_to_grid has returned is returned unchanged by
\* snap_to_grid, and a point snap_to_grid_horizontal_only has returned is
\* returned unchanged by snap_to_grid_horizontal_only, which also returns
\* the Z it was given; at every tile size and both speeds.
C22_SnapIdempotent ==
    [][/\ ret'.op = "snap" =>
            snap_to_grid(location', movement_speed, current_tile_size) = location'
       /\ ret'.op = "snap_xy" =>
            /\ snap_to_grid_horizontal_only(location', movement_speed,
                                             current_tile_size) = location'
            /\ location'[3] = location[3]]_vars

\* snap_to_grid has moved a point that lay off the grid on all three axes
\* (Fast mode, size 1.0: the grid of the odd half units).
C22_Witness ==
    /\ ret.op = "snap"
    /\ movement_speed = 2
    /\ current_tile_size = 40
    /\ location = <<-20, 20, -20>>

\* A move made with shift held that takes effect: a movement key, or a
\* mouse move of at least the pixel threshold after an earlier one.
PrecisionMove ==
    \/ \E key \in MoveKeys, view \in Views : KeyMove(key, TRUE, view)
    \/ /\ last_mouse # None
       /\ last_mouse' # last_mouse
       /\ \E mouse \in PrecisePixels, view \in Views :
             MouseMove(TRUE, mouse, None, view)

\* C23: a move made with shift held leaves the preview exactly 0.1 away
\* along one world axis, the other two coordinates being what they were,
\* rounded to no grid; at every tile size, at both speeds, with auto-mode on
\* or off.
C23_PrecisionSnapFree ==
    [][PrecisionMove =>
         \E i \in 1..3 :
             /\ Abs(location'[i] - location[i]) = 4
             /\ \A j \in 1..3 \ {i} : location'[j] = location[j]]_vars

\* With auto-mode on (Fast) at size 0.5 a mouse move with shift held has
\* put the preview 0.1 off the 0.5 grid and committed a tile there.
C23_Witness ==
    /\ ret = [op |-> "mouse", value |-> TRUE]
    /\ auto_mode
    /\ movement_speed = 2
    /\ current_tile_size = 20
    /\ location[1] % 20 = 4
    /\ CurrentKey \in placed_tiles

\* W, S, A or D pressed without shift.
PlainHorizontalMove ==
    \E key \in {"W", "S", "A", "D"}, view \in Views : KeyMove(key, FALSE, view)

\* C24: in Fast mode a W/S/A/D key without shift changes X or Y of the
\* preview centre by exactly the tile size and leaves the other two
\* coordinates as they were, on or off the grids.
C24_FastMoveUnsnapped ==
    [][(PlainHorizontalMove /\ movement_speed = 2) =>
         \E i \in 1..2 :
             /\ Abs(location'[i] - location[i]) = current_tile_size
             /\ \A j \in 1..3 \ {i} : location'[j] = location[j]]_vars

\* Fast mode, size 1.0: the preview is one tile size along X from a start
\* 0.1 off the grid, and 0.1 off the grid along Y and Z as well.
C24_Witness ==
    /\ ret.op = "move"
    /\ movement_speed = 2
    /\ current_tile_size = 40
    /\ location[1] = 44
    /\ location[2] = 4
    /\ location[3] % 20 = 4

\* C25: a movement key without shift moves the preview by 0.5 in Normal
\* mode, whatever the tile size, and by the tile size in Fast mode, along
\* one of X, Y (before the Normal mode rounding of X and Y) or, for Q and E,
\* along Z; whatever the face preset, the inverted flag and the ledger.
C25_StepByMode ==
    [][PlainMove =>
         LET step == IF movement_speed = 1 THEN 20 ELSE current_tile_size
             snap(c) == IF movement_speed = 1 THEN Round(c, 20) * 20 ELSE c
         IN  \E d \in {<<step, 0, 0>>, <<-step, 0, 0>>, <<0, step, 0>>,
                        <<0, -step, 0>>, <<0, 0, step>>, <<0, 0, -step>>} :
                 location' = <<snap(location[1] + d[1]),
                               snap(location[2] + d[2]),
                               location[3] + d[3]>>]_vars

\* Q or E in Normal mode at size 4.0, on the Top preset, inverted, with a
\* tile in the ledger: the preview is 0.5 above or below where it was.
C25_Witness ==
    /\ ret.op = "move"
    /\ movement_speed = 1
    /\ current_tile_size = 160
    /\ rotation_state = 1
    /\ inverted_mode
    /\ placed_tiles # {}
    /\ location \in {<<40, 20, 0>>, <<40, 20, -40>>}

\* C26: each of the two vectors get_view_relative_vectors returns has one
\* component that is 1 or -1, on X or on Y, and zeros elsewhere; without
\* region data (or after an error) they are (0,1,0) and (1,0,0).
C26_ViewVectorsCardinal ==
    ret.op = "vectors" =>
        LET Cardinals == {<<1, 0, 0>>, <<-1, 0, 0>>, <<0, 1, 0>>, <<0, -1, 0>>}
        IN  /\ ret.value.vectors[1] \in Cardinals
            /\ ret.value.vectors[2] \in Cardinals
            /\ ret.value.view = None =>
                  ret.value.vectors = << <<0, 1, 0>>, <<1, 0, 0>> >>

\* The vectors of a camera whose forward direction lies on a diagonal and
\* whose right direction leans to -X: -Y and -X.
C26_Witness ==
    /\ ret.op = "vectors"
    /\ ret.value.view = Some([f |-> <<2, -2>>, r |-> <<-2, -1>>])
    /\ ret.value.vectors = << <<0, -1, 0>>, <<-1, 0, 0>> >>

\* The step is a handler that changed the pose: a key or mouse move that
\* left the preview elsewhere, TAB, 1-6, an icon click, R, a size change or
\* an I that toggled the inverted flag.
PoseMutated ==
    \/ ret'.op \in {"move", "mouse"} /\ location' # location
    \/ ret'.op \in {"tab", "face", "icon", "spin", "size"}
    \/ ret'.op = "invert" /\ ret'.value

C28_RotationKeepsPosition ==
    [][ret'.op \in {"tab", "face", "icon", "spin"} =>
         /\ location' = location
         /\ UNCHANGED <<base_location, tile_size_index, current_tile_size,
                        inverted_mode, modeVars, ledgerVars>>]_vars

\* R has spun the preview on a side preset at size 4.0, half a unit along
\* X and above the ground plane.
C28_Witness ==
    /\ ret.op = "spin"
    /\ rotation_state = 2
    /\ rotation_euler = <<90, 0, 45>>
    /\ current_tile_size = 160
    /\ location = <<20, 0, 40>>

\* C29: rotation_state is always one of 0..5; TAB moves it to the next
\* index, wrapping from 5 to 0, so that six TABs from the index it is at
\* lead back to that index and one to five TABs lead to another one.
C29_CyclePeriodSix ==
    [][/\ rotation_state' \in 0..5
       /\ ret'.op = "tab" =>
            /\ rotation_state' = cycle(rotation_state)
            /\ CycleTimes(6, rotation_state) = rotation_state
            /\ \A n \in 1..5 : CycleTimes(n, rotation_state) # rotation_state]_vars

\* TAB has wrapped around from the last preset (Left) to the first (Bottom).
C29_Witness ==
    /\ ret.op = "tab"
    /\ rotation_state = 0
    /\ rotation_euler = CUBE_FACES[1]

\* C30: after the number key m + 1 or a click on icon m rotation_state is
\* m and the preview rotation is that of preset m, whatever the preset and
\* the Z spin were before.
C30_FaceSelectionDirect ==
    [][\A m \in Faces :
         (KeyFace(m) \/ ClickIcon(m)) =>
             /\ rotation_state' = m
             /\ rotation_euler' = CUBE_FACES[m + 1]]_vars

\* The key 5 has selected the Right preset.
C30_Witness ==
    /\ ret.op = "face"
    /\ rotation_state = 4
    /\ rotation_euler = <<0, -90, 0>>

\* C31: tile_size_index is always one of 0..3 and current_tile_size is the
\* entry of TILE_SIZES at that index; a size change in direction +1 or -1
\* moves the index to the next or previous one with wraparound, so that four
\* changes in one direction, and a change followed by the opposite one, lead
\* back to the index they started at.
C31_SizeCycle ==
    [][/\ tile_size_index' \in 0..3
       /\ current_tile_size' = TILE_SIZES[tile_size_index' + 1]
       /\ \A direction \in {1, -1} :
            ChangeSize(direction) =>
                /\ tile_size_index' = size_index_after(tile_size_index, direction)
                /\ tile_size_index' # tile_size_index
                /\ SizeTimes(4, tile_size_index, direction) = tile_size_index
                /\ \A n \in 1..3 :
                      SizeTimes(n, tile_size_index, direction) # tile_size_index
                /\ size_index_after(tile_size_index', -direction)
                      = tile_size_index]_vars

\* A size change has wrapped around to the smallest size, 0.5.
C31_Witness ==
    /\ ret.op = "size"
    /\ tile_size_index = 0
    /\ current_tile_size = 20
    /\ rotation_state = 1

\* Q or E (PAGE_UP, PAGE_DOWN) pressed, with or without shift.
VerticalMove(shift) ==
    \E key \in {"Q", "E"}, view \in Views : KeyMove(key, shift, view)

\* C32: Q and E change Z by exactly the step, up or down, and Z is not
\* rounded; with shift held or in Fast mode X and Y stay as they were; in
\* Normal mode without shift X and Y are rounded to the 0.5 grid.
C32_VerticalMoveHeightOnly ==
    [][\A shift \in BOOLEAN :
         VerticalMove(shift) =>
            LET step == IF shift THEN 4
                        ELSE IF movement_speed = 1 THEN 20
                        ELSE current_tile_size
            IN  /\ Abs(location'[3] - location[3]) = step
                /\ IF shift \/ movement_speed = 2
                   THEN /\ location'[1] = location[1]
                        /\ location'[2] = location[2]
                   ELSE /\ location'[1] = Round(location[1], 20) * 20
                        /\ location'[2] = Round(location[2], 20) * 20]_vars

\* Normal mode: Q from a pose 0.1 off the grid on every axis has put the
\* preview back on the 0.5 grid in X and Y, at a height still 0.1 off it.
C32_Witness ==
    /\ ret.op = "move"
    /\ movement_speed = 1
    /\ location = <<0, 0, 24>>

\* C33 as stated: in Fast mode the X and Y update_preview_from_mouse gives
\* the preview for a ray hit are the X and Y snap_to_grid returns for the
\* same point, at every tile size.
C33_FastMouseOnSnapGrid ==
    [][\A hit \in CacheHits \ {None} :
         (movement_speed = 2 /\ MouseMove(FALSE, <<0, 0>>, hit, None)) =>
            LET snapped == snap_to_grid(<<hit[1][1], hit[1][2], location[3]>>,
                                        movement_speed, current_tile_size)
            IN  /\ location'[1] = snapped[1]
                /\ location'[2] = snapped[2]]_vars

\* C34 as stated: an undo that returns False leaves the ledger, the
\* structure and the undo log exactly as they were.
C34_FailedUndoChangesNothing ==
    [][(ret'.op = "undo" /\ ~ret'.value) =>
         UNCHANGED <<placed_tiles, master_object, undo_history,
                     undo_positions>>]_vars

\* C35: after every operation master_object is None exactly when the
\* ledger is empty: deleting or undoing the last tile removes the structure
\* and the next commit creates a new one.
C35_StructureIffTiles ==
    (master_object = None) <=> (placed_tiles = {})

\* A commit has created a new structure after the delete of the only tile
\* had removed the first one: the log holds the snapshot of the empty
\* state, the snapshot taken by the delete and the snapshot of the empty
\* state again.
C35_Witness ==
    /\ ret = [op |-> "place", value |-> TRUE]
    /\ master_object # None
    /\ Cardinality(placed_tiles) = 1
    /\ Len(undo_history) = 3
    /\ undo_history[1] = None
    /\ undo_history[2] # None
    /\ undo_history[3] = None

\* C36: TAB, the face keys, an icon click, R, a size change, I, V and X
\* leave the ledger, the undo log and the structure as they are, with
\* auto-mode on or off; so does a keyboard or mouse move made with
\* auto-mode off.
C36_OnlyCommitDeleteUndoTouchLedger ==
    [][(\/ ret'.op \in {"tab", "face", "icon", "spin", "size", "invert",
                        "speed", "auto"}
        \/ ret'.op \in {"move", "mouse"} /\ ~auto_mode) =>
          UNCHANGED <<placed_tiles, undo_history, undo_positions,
                      master_object>>]_vars

\* With auto-mode off a move has taken the preview away from the tile
\* SPACE committed: the ledger, the log and the structure hold that tile.
C36_Witness ==
    /\ ret.op = "move"
    /\ ~auto_mode
    /\ Cardinality(placed_tiles) = 1
    /\ CurrentKey \notin placed_tiles
    /\ master_object = Some(MeshOf(placed_tiles))
    /\ Len(undo_history) = 1

C38_FullTurnSameKey ==
    [][/\ (/\ ret'.op = "place"
           /\ \E k \in placed_tiles :
                 /\ k.rz = rotation_euler[3] - 360
                 /\ [k EXCEPT !.rz = rotation_euler[3]] = CurrentKey) =>
              /\ ~ret'.value
              /\ CurrentKey \in placed_tiles
       /\ KeyR(FALSE) =>
              PosKey(get_green_face_world_position(
                         location',
                         [rotation_euler' EXCEPT ![3] = @ - 45],
                         current_tile_size'),
                     [rotation_euler' EXCEPT ![3] = @ - 45],
                     tile_size_index', inverted_mode') = CurrentKey]_vars

\* C39: in every reachable state, if last_placed_position is not None the
\* placement key of the current preview pose is in the ledger.
C39_CacheDescribesPlacedTile ==
    last_placed_position # None => CurrentKey \in placed_tiles

\* SPACE pressed again at the pose of the last commit has been rejected:
\* the cache still holds that commit and its key is in the ledger.
C39_Witness ==
    /\ ret = [op |-> "place", value |-> FALSE]
    /\ last_placed_position # None
    /\ CurrentKey \in placed_tiles

====
